---- MODULE Spec2Model ----
(***************************************************************************)
(* Blogicum: the request handlers of blog/views.py over the stored posts,  *)
(* categories and comments, with the admin's list_editable flags of        *)
(* blog/admin.py and a clock (timezone.now()).                             *)
(*                                                                         *)
(* Every handler is one action.  It leaves in `response` what the request  *)
(* was and what was answered, so `response` always belongs to the last     *)
(* step taken and is read together with the state that step left behind.   *)
(***************************************************************************)
EXTENDS Integers, Sequences, FiniteSets

\* ---------------------------------------------------------------- bounds
MaxPosts == 2
MaxComments == 2
MaxTime == 1

\* ------------------------------------------------------------ input sets
Anonymous == "anon"
Users == {"alice", "bob", "root"}
Requesters == Users \cup {Anonymous}
Usernames == Users \cup {"nobody"}
Categories == {"c1", "c2"}
Slugs == Categories \cup {"missing"}
Texts == {"a", "b"}
Times == 0..MaxTime
PostPks == 1..MaxPosts
CommentPks == 1..MaxComments
UrlPostPks == 1..(MaxPosts + 1)
UrlCommentPks == 1..(MaxComments + 1)

\* What a request to a form view carries: a GET carries no form; a POST
\* carries a form that validates or does not.  PostForm excludes created_at,
\* author and is_published, so a valid post form brings the category and the
\* pub_date (and fields no rule reads); CommentForm brings the text, and an
\* empty text does not validate.
PostSubmissions ==
    {[method |-> "GET", valid |-> FALSE, category |-> "", pub_date |-> 0],
     [method |-> "POST", valid |-> FALSE, category |-> "", pub_date |-> 0]}
    \cup [method : {"POST"}, valid : {TRUE}, category : Categories,
          pub_date : Times]

CommentSubmissions ==
    {[method |-> "GET", valid |-> FALSE, text |-> ""],
     [method |-> "POST", valid |-> FALSE, text |-> ""]}
    \cup [method : {"POST"}, valid : {TRUE}, text : Texts]

Methods == {"GET", "POST"}

VARIABLES now, category_is_published, posts, next_post_pk,
          comments, next_comment_pk, response

vars == <<now, category_is_published, posts, next_post_pk,
          comments, next_comment_pk, response>>

db == <<category_is_published, posts, next_post_pk, comments, next_comment_pk>>

\* ------------------------------------------------------------ users
is_authenticated(user) == user # Anonymous

is_superuser(user) == user = "root"

\* ------------------------------------------------------------ responses
NoLocation == [url |-> "", pk |-> 0, username |-> ""]

post_detail_url(pk) == [url |-> "blog:post_detail", pk |-> pk, username |-> ""]

profile_url(user) == [url |-> "blog:profile", pk |-> 0, username |-> user]

login_url == [url |-> "login", pk |-> 0, username |-> ""]

NoResponse ==
    [view |-> "", method |-> "", user |-> "", pk |-> 0, comm_pk |-> 0,
     arg |-> "", valid |-> FALSE, status |-> "", location |-> NoLocation,
     post |-> 0, items |-> <<>>]

Request(view, method, user) ==
    [NoResponse EXCEPT !.view = view, !.method = method, !.user = user]

Http404(req) == [req EXCEPT !.status = "404"]

render(req) == [req EXCEPT !.status = "200"]

redirect(req, location) == [req EXCEPT !.status = "302", !.location = location]

\* LoginRequiredMixin.dispatch: an anonymous request is sent to the login page.
handle_no_permission(req) == redirect(req, login_url)

Range(s) == {s[i] : i \in 1..Len(s)}

\* ------------------------------------------------------------ records
NoPost == [author |-> "", category |-> "", is_published |-> FALSE, pub_date |-> 0]

NoComment == [author |-> "", post |-> 0, text |-> "", created_at |-> 0]

\* objects.create / form.save of a new row under the next primary key.
insert(table, pk, row) ==
    [k \in DOMAIN table \cup {pk} |-> IF k = pk THEN row ELSE table[k]]

\* delete of the rows whose keys are in `pks`.
delete(table, pks) == [k \in DOMAIN table \ pks |-> table[k]]

\* ------------------------------------------------------------ querysets
\* order_by('-pub_date', 'title'): titles are not stored here, the pk stands
\* for the title in a tie.
PostBefore(p, q) ==
    \/ posts[p].pub_date > posts[q].pub_date
    \/ posts[p].pub_date = posts[q].pub_date /\ p <= q

RECURSIVE order_by_pub_date_desc(_)
order_by_pub_date_desc(S) ==
    IF S = {} THEN <<>>
    ELSE LET first == CHOOSE p \in S : \A q \in S : PostBefore(p, q)
         IN <<first>> \o order_by_pub_date_desc(S \ {first})

CommentBefore(c, d) ==
    \/ comments[c].created_at < comments[d].created_at
    \/ comments[c].created_at = comments[d].created_at /\ c <= d

RECURSIVE order_by_created_at(_)
order_by_created_at(S) ==
    IF S = {} THEN <<>>
    ELSE LET first == CHOOSE c \in S : \A d \in S : CommentBefore(c, d)
         IN <<first>> \o order_by_created_at(S \ {first})

\* Faulty variant: the pub_date__lt condition is left out.
PostListView_get_queryset_without_pub_date ==
    order_by_pub_date_desc(
        {p \in DOMAIN posts :
            /\ posts[p].is_published
            /\ category_is_published[posts[p].category]})

PostListView_get_queryset ==
    order_by_pub_date_desc(
        {p \in DOMAIN posts :
            /\ posts[p].is_published
            /\ category_is_published[posts[p].category]
            /\ posts[p].pub_date < now})

category_posts_filter(category_slug) ==
    order_by_pub_date_desc(
        {p \in DOMAIN posts :
            /\ posts[p].category = category_slug
            /\ posts[p].is_published
            /\ category_is_published[posts[p].category]
            /\ posts[p].pub_date < now})

CategoryPostsListView_get_queryset(category_slug) ==
    order_by_pub_date_desc(
        {p \in DOMAIN posts :
            /\ posts[p].category = category_slug
            /\ posts[p].is_published
            /\ category_is_published[posts[p].category]
            /\ posts[p].pub_date < now})

profile_view_posts(username) ==
    order_by_pub_date_desc({p \in DOMAIN posts : posts[p].author = username})

\* Faulty variant: the comments are not filtered by post.
PostDetailView_comments_of_all_posts(pk) ==
    order_by_created_at(DOMAIN comments)

PostDetailView_comments(pk) ==
    order_by_created_at({c \in DOMAIN comments : comments[c].post = pk})

\* Faulty variant: the check of the category is left out.
PostDetailView_raises_404_without_category(user, pk) ==
    \/ /\ ~posts[pk].is_published
       /\ (~is_authenticated(user) \/ posts[pk].author # user)
    \/ /\ posts[pk].pub_date > now
       /\ (~is_authenticated(user) \/ posts[pk].author # user)

\* Faulty variant: a future post is hidden from its author too.
PostDetailView_raises_404_future_for_author(user, pk) ==
    \/ /\ ~posts[pk].is_published
       /\ (~is_authenticated(user) \/ posts[pk].author # user)
    \/ /\ ~category_is_published[posts[pk].category]
       /\ (~is_authenticated(user) \/ posts[pk].author # user)
    \/ posts[pk].pub_date > now

\* The three checks of PostDetailView.get_context_data that raise Http404.
PostDetailView_raises_404(user, pk) ==
    \/ /\ ~posts[pk].is_published
       /\ (~is_authenticated(user) \/ posts[pk].author # user)
    \/ /\ ~category_is_published[posts[pk].category]
       /\ (~is_authenticated(user) \/ posts[pk].author # user)
    \/ /\ posts[pk].pub_date > now
       /\ (~is_authenticated(user) \/ posts[pk].author # user)

\* ------------------------------------------------------------ initial state
Init ==
    /\ now = 0
    /\ category_is_published = [c \in Categories |-> TRUE]
    /\ posts = [pk \in {} |-> NoPost]
    /\ next_post_pk = 1
    /\ comments = [comm_pk \in {} |-> NoComment]
    /\ next_comment_pk = 1
    /\ response = NoResponse

\* Requests are served one at a time: a step is taken when no response is
\* waiting to be sent.
idle == response = NoResponse

\* The response leaves the server.
send_response ==
    /\ ~idle
    /\ response' = NoResponse
    /\ UNCHANGED <<now, db>>

\* ------------------------------------------------------------ clock, admin
Tick ==
    /\ idle
    /\ now < MaxTime
    /\ now' = now + 1
    /\ UNCHANGED <<db, response>>

CategoryAdmin_set_is_published(c, flag) ==
    /\ idle
    /\ category_is_published' = [category_is_published EXCEPT ![c] = flag]
    /\ UNCHANGED <<now, posts, next_post_pk, comments, next_comment_pk, response>>

PostAdmin_set_is_published(pk, flag) ==
    /\ idle
    /\ pk \in DOMAIN posts
    /\ posts' = [posts EXCEPT ![pk].is_published = flag]
    /\ UNCHANGED <<now, category_is_published, next_post_pk, comments,
                   next_comment_pk, response>>

PostAdmin_set_category(pk, c) ==
    /\ idle
    /\ pk \in DOMAIN posts
    /\ posts' = [posts EXCEPT ![pk].category = c]
    /\ UNCHANGED <<now, category_is_published, next_post_pk, comments,
                   next_comment_pk, response>>

\* ------------------------------------------------------------ read views
PostListView ==
    /\ idle
    /\ response' = [render(Request("PostListView", "GET", Anonymous))
                       EXCEPT !.items = PostListView_get_queryset]
    /\ UNCHANGED <<now, db>>

PostDetailView(user, pk) ==
    LET req == [Request("PostDetailView", "GET", user) EXCEPT !.pk = pk]
    IN /\ idle
       /\ response' =
            IF pk \notin DOMAIN posts THEN Http404(req)
            ELSE IF PostDetailView_raises_404(user, pk) THEN Http404(req)
            ELSE [render(req) EXCEPT !.post = pk,
                                     !.items = PostDetailView_comments(pk)]
       /\ UNCHANGED <<now, db>>

category_posts(category_slug) ==
    LET req == [Request("category_posts", "GET", Anonymous)
                   EXCEPT !.arg = category_slug]
    IN /\ idle
       /\ response' =
            IF category_slug \notin Categories THEN Http404(req)
            ELSE IF category_posts_filter(category_slug) = <<>>
                 THEN Http404(req)
            ELSE [render(req) EXCEPT
                     !.items = category_posts_filter(category_slug)]
       /\ UNCHANGED <<now, db>>

CategoryPostsListView(category_slug) ==
    LET req == [Request("CategoryPostsListView", "GET", Anonymous)
                   EXCEPT !.arg = category_slug]
    IN /\ idle
       /\ response' =
            IF category_slug \notin Categories THEN Http404(req)
            ELSE IF ~category_is_published[category_slug] THEN Http404(req)
            ELSE [render(req) EXCEPT
                     !.items = CategoryPostsListView_get_queryset(category_slug)]
       /\ UNCHANGED <<now, db>>

profile_view(user, username) ==
    LET req == [Request("profile_view", "GET", user) EXCEPT !.arg = username]
    IN /\ idle
       /\ response' =
            IF username \notin Users THEN Http404(req)
            ELSE [render(req) EXCEPT !.items = profile_view_posts(username)]
       /\ UNCHANGED <<now, db>>

\* ------------------------------------------------------------ posts
\* is_published is not in the form: the row gets the model's default, taken
\* to be published; the admin's flag is what withdraws a post.
PostCreateView_form_valid(user, form) ==
    [author |-> user, category |-> form.category, is_published |-> TRUE,
     pub_date |-> form.pub_date]

PostCreateView(user, form) ==
    LET req == [Request("PostCreateView", form.method, user)
                   EXCEPT !.valid = form.valid]
    IN /\ idle
       /\ IF ~is_authenticated(user)
          THEN /\ response' = handle_no_permission(req)
               /\ UNCHANGED <<now, db>>
          ELSE IF form.method = "POST" /\ form.valid
          THEN /\ next_post_pk <= MaxPosts
               /\ posts' = insert(posts, next_post_pk,
                                  PostCreateView_form_valid(user, form))
               /\ next_post_pk' = next_post_pk + 1
               /\ response' = [redirect(req, profile_url(user))
                                  EXCEPT !.post = next_post_pk]
               /\ UNCHANGED <<now, category_is_published, comments,
                              next_comment_pk>>
          ELSE /\ response' = render(req)
               /\ UNCHANGED <<now, db>>

PostUpdateView_form_valid(post, form) ==
    [post EXCEPT !.category = form.category, !.pub_date = form.pub_date]

PostUpdateView_not_author(user, pk) == posts[pk].author # user

PostUpdateView(user, pk, form) ==
    LET req == [Request("PostUpdateView", form.method, user)
                   EXCEPT !.pk = pk, !.valid = form.valid]
    IN /\ idle
       /\ IF pk \notin DOMAIN posts
          THEN /\ response' = Http404(req)
               /\ UNCHANGED <<now, db>>
          ELSE IF PostUpdateView_not_author(user, pk)
          THEN /\ response' = redirect(req, post_detail_url(pk))
               /\ UNCHANGED <<now, db>>
          ELSE IF ~is_authenticated(user)
          THEN /\ response' = handle_no_permission(req)
               /\ UNCHANGED <<now, db>>
          ELSE IF form.method = "POST" /\ form.valid
          THEN /\ posts' = [posts EXCEPT
                               ![pk] = PostUpdateView_form_valid(posts[pk], form)]
               /\ response' = [redirect(req, post_detail_url(pk))
                                  EXCEPT !.post = pk]
               /\ UNCHANGED <<now, category_is_published, next_post_pk,
                              comments, next_comment_pk>>
          ELSE /\ response' = [render(req) EXCEPT !.post = pk]
               /\ UNCHANGED <<now, db>>

\* Faulty variant: the superuser passes, as in CommentDeleteView.
PostDeleteView_not_author_nor_superuser(user, pk) ==
    posts[pk].author # user /\ ~is_superuser(user)

PostDeleteView_not_author(user, pk) == posts[pk].author # user

\* Deleting a post deletes the comments attached to it with it.
PostDeleteView(user, pk, method) ==
    LET req == [Request("PostDeleteView", method, user) EXCEPT !.pk = pk]
    IN /\ idle
       /\ IF pk \notin DOMAIN posts
          THEN /\ response' = Http404(req)
               /\ UNCHANGED <<now, db>>
          ELSE IF PostDeleteView_not_author(user, pk)
          THEN /\ response' = redirect(req, post_detail_url(pk))
               /\ UNCHANGED <<now, db>>
          ELSE IF ~is_authenticated(user)
          THEN /\ response' = handle_no_permission(req)
               /\ UNCHANGED <<now, db>>
          ELSE IF method = "POST"
          THEN /\ posts' = delete(posts, {pk})
               /\ comments' = delete(comments,
                                 {c \in DOMAIN comments : comments[c].post = pk})
               /\ response' = redirect(req, profile_url(user))
               /\ UNCHANGED <<now, category_is_published, next_post_pk,
                              next_comment_pk>>
          ELSE /\ response' = [render(req) EXCEPT !.post = pk]
               /\ UNCHANGED <<now, db>>

\* ------------------------------------------------------------ comments
\* Faulty variant: the comment is signed with the post's author.
CommentCreateView_form_valid_as_post_author(user, pk, form) ==
    [author |-> posts[pk].author, post |-> pk, text |-> form.text,
     created_at |-> now]

\* created_at is set when the row is created and no form carries it.
CommentCreateView_form_valid(user, pk, form) ==
    [author |-> user, post |-> pk, text |-> form.text, created_at |-> now]

CommentCreateView(user, pk, form) ==
    LET req == [Request("CommentCreateView", form.method, user)
                   EXCEPT !.pk = pk, !.valid = form.valid]
    IN /\ idle
       /\ IF ~is_authenticated(user)
          THEN /\ response' = handle_no_permission(req)
               /\ UNCHANGED <<now, db>>
          ELSE IF form.method = "POST" /\ form.valid
          THEN IF pk \notin DOMAIN posts
               THEN /\ response' = Http404(req)
                    /\ UNCHANGED <<now, db>>
               ELSE /\ next_comment_pk <= MaxComments
                    /\ comments' = insert(comments, next_comment_pk,
                                      CommentCreateView_form_valid(user, pk, form))
                    /\ next_comment_pk' = next_comment_pk + 1
                    /\ response' = [redirect(req, post_detail_url(pk))
                                       EXCEPT !.comm_pk = next_comment_pk]
                    /\ UNCHANGED <<now, category_is_published, posts,
                                   next_post_pk>>
          ELSE /\ response' = render(req)
               /\ UNCHANGED <<now, db>>

CommentDeleteView_forbidden(user, comm_pk) ==
    comments[comm_pk].author # user /\ ~is_superuser(user)

\* The pk of the post in the URL is not read: the comment is looked up by
\* comm_pk and the redirect goes to the comment's own post.
CommentDeleteView(user, comm_pk, method) ==
    LET req == [Request("CommentDeleteView", method, user)
                   EXCEPT !.comm_pk = comm_pk]
    IN /\ idle
       /\ IF comm_pk \notin DOMAIN comments
          THEN /\ response' = Http404(req)
               /\ UNCHANGED <<now, db>>
          ELSE IF CommentDeleteView_forbidden(user, comm_pk)
          THEN /\ response' = Http404(req)
               /\ UNCHANGED <<now, db>>
          ELSE IF ~is_authenticated(user)
          THEN /\ response' = handle_no_permission(req)
               /\ UNCHANGED <<now, db>>
          ELSE IF method = "POST"
          THEN /\ comments' = delete(comments, {comm_pk})
               /\ response' = redirect(req,
                                  post_detail_url(comments[comm_pk].post))
               /\ UNCHANGED <<now, category_is_published, posts, next_post_pk,
                              next_comment_pk>>
          ELSE /\ response' = render(req)
               /\ UNCHANGED <<now, db>>

CommentUpdateView_form_valid(comment, form) == [comment EXCEPT !.text = form.text]

\* Faulty variant: the superuser passes, as in CommentDeleteView.
CommentUpdateView_forbidden_unless_superuser(user, comm_pk) ==
    comments[comm_pk].author # user /\ ~is_superuser(user)

CommentUpdateView_forbidden(user, comm_pk) == comments[comm_pk].author # user

\* The redirect after a saved edit goes to the pk of the URL, which is
\* otherwise not read.
CommentUpdateView(user, pk, comm_pk, form) ==
    LET req == [Request("CommentUpdateView", form.method, user)
                   EXCEPT !.pk = pk, !.comm_pk = comm_pk, !.valid = form.valid]
    IN /\ idle
       /\ IF comm_pk \notin DOMAIN comments
          THEN /\ response' = Http404(req)
               /\ UNCHANGED <<now, db>>
          ELSE IF CommentUpdateView_forbidden(user, comm_pk)
          THEN /\ response' = Http404(req)
               /\ UNCHANGED <<now, db>>
          ELSE IF ~is_authenticated(user)
          THEN /\ response' = handle_no_permission(req)
               /\ UNCHANGED <<now, db>>
          ELSE IF form.method = "POST" /\ form.valid
          THEN /\ comments' = [comments EXCEPT ![comm_pk] =
                                  CommentUpdateView_form_valid(comments[comm_pk],
                                                               form)]
               /\ response' = redirect(req, post_detail_url(pk))
               /\ UNCHANGED <<now, category_is_published, posts, next_post_pk,
                              next_comment_pk>>
          ELSE /\ response' = render(req)
               /\ UNCHANGED <<now, db>>

\* ------------------------------------------------------------ specifications
\* The posts: their life cycle, the admin's flags, the clock and the pages
\* that show posts.  No comment is written.
NextPosts ==
    \/ send_response
    \/ Tick
    \/ \E c \in Categories, flag \in BOOLEAN :
          CategoryAdmin_set_is_published(c, flag)
    \/ \E pk \in PostPks, flag \in BOOLEAN : PostAdmin_set_is_published(pk, flag)
    \/ \E pk \in PostPks, c \in Categories : PostAdmin_set_category(pk, c)
    \/ PostListView
    \/ \E user \in Requesters, pk \in UrlPostPks : PostDetailView(user, pk)
    \/ \E slug \in Slugs : category_posts(slug)
    \/ \E slug \in Slugs : CategoryPostsListView(slug)
    \/ \E user \in Requesters, username \in Usernames :
          profile_view(user, username)
    \/ \E user \in Requesters, form \in PostSubmissions :
          PostCreateView(user, form)
    \/ \E user \in Requesters, pk \in UrlPostPks, form \in PostSubmissions :
          PostUpdateView(user, pk, form)
    \/ \E user \in Requesters, pk \in UrlPostPks, method \in Methods :
          PostDeleteView(user, pk, method)

SpecPosts == Init /\ [][NextPosts]_vars

\* The comments: alice and bob have each written a post (two PostCreateView
\* requests from Init: alice's post for now, bob's post for later); from there
\* comments are written, edited and deleted, posts are read, hidden by the
\* admin and deleted, and the clock runs.
InitComments ==
    /\ now = 0
    /\ category_is_published = [c \in Categories |-> TRUE]
    /\ posts = [pk \in 1..2 |->
                  IF pk = 1
                  THEN [author |-> "alice", category |-> "c1",
                        is_published |-> TRUE, pub_date |-> 0]
                  ELSE [author |-> "bob", category |-> "c2",
                        is_published |-> TRUE, pub_date |-> 1]]
    /\ next_post_pk = 3
    /\ comments = [comm_pk \in {} |-> NoComment]
    /\ next_comment_pk = 1
    /\ response = NoResponse

NextComments ==
    \/ send_response
    \/ Tick
    \/ \E pk \in PostPks, flag \in BOOLEAN : PostAdmin_set_is_published(pk, flag)
    \/ \E user \in Requesters, pk \in UrlPostPks : PostDetailView(user, pk)
    \/ \E user \in Requesters, pk \in UrlPostPks, method \in Methods :
          PostDeleteView(user, pk, method)
    \/ \E user \in Requesters, pk \in UrlPostPks, form \in CommentSubmissions :
          CommentCreateView(user, pk, form)
    \/ \E user \in Requesters, comm_pk \in UrlCommentPks, method \in Methods :
          CommentDeleteView(user, comm_pk, method)
    \/ \E user \in Requesters, pk \in PostPks, comm_pk \in UrlCommentPks,
          form \in CommentSubmissions :
          CommentUpdateView(user, pk, comm_pk, form)

SpecComments == InitComments /\ [][NextComments]_vars

\* Who wrote what: posts and comments are created and edited, nothing else
\* happens.  The clock stands still, and the post forms ask for publication
\* at once.
PostSubmissionsNow == {form \in PostSubmissions : form.pub_date = 0}

NextAuthorship ==
    \/ send_response
    \/ \E user \in Requesters, form \in PostSubmissionsNow :
          PostCreateView(user, form)
    \/ \E user \in Requesters, pk \in UrlPostPks, form \in PostSubmissionsNow :
          PostUpdateView(user, pk, form)
    \/ \E user \in Requesters, pk \in UrlPostPks, form \in CommentSubmissions :
          CommentCreateView(user, pk, form)
    \/ \E user \in Requesters, pk \in PostPks, comm_pk \in UrlCommentPks,
          form \in CommentSubmissions :
          CommentUpdateView(user, pk, comm_pk, form)

SpecAuthorship == Init /\ [][NextAuthorship]_vars

\* The whole program.
Next == NextPosts \/ NextComments

Spec == Init /\ [][Next]_vars

\* ------------------------------------------------------------ properties
\* Glossary, "Visibility rule": the post and its category are marked
\* published and the publish date is not in the future.
publicly_visible(pk) ==
    /\ posts[pk].is_published
    /\ category_is_published[posts[pk].category]
    /\ posts[pk].pub_date <= now

Listings == {"PostListView", "category_posts", "CategoryPostsListView"}

\* C1: every post a public listing returns (the index, either category
\* listing) is published, in a published category and not dated in the
\* future; a category listing returns posts of the requested category only.
C1_ListingsShowOnlyPublicPosts ==
    (response.view \in Listings /\ response.status = "200") =>
        \A i \in 1..Len(response.items) :
            LET p == response.items[i]
            IN /\ p \in DOMAIN posts
               /\ posts[p].is_published
               /\ category_is_published[posts[p].category]
               /\ posts[p].pub_date <= now
               /\ response.view # "PostListView" =>
                      posts[p].category = response.arg

\* A category listing that shows one post while another post is held back.
C1_Witness ==
    /\ response.view = "category_posts"
    /\ response.status = "200"
    /\ Len(response.items) = 1
    /\ Cardinality(DOMAIN posts) = 2
    /\ \E p \in DOMAIN posts :
          posts[p].category = response.arg /\ ~publicly_visible(p)

\* C2: a detail request by anyone but the author for a post that is
\* unpublished, in an unpublished category or dated in the future is answered
\* 404 and carries no post and no comments.
C2_HiddenPostIs404ForOthers ==
    (/\ response.view = "PostDetailView"
     /\ response.pk \in DOMAIN posts
     /\ response.user # posts[response.pk].author
     /\ \/ ~posts[response.pk].is_published
        \/ ~category_is_published[posts[response.pk].category]
        \/ posts[response.pk].pub_date > now)
    => /\ response.status = "404"
       /\ response.post = 0
       /\ response.items = <<>>

\* The superuser asks for another user's post whose only flaw is its
\* unpublished category.
C2_Witness ==
    /\ response.view = "PostDetailView"
    /\ response.user = "root"
    /\ response.pk \in DOMAIN posts
    /\ posts[response.pk].author # "root"
    /\ posts[response.pk].is_published
    /\ posts[response.pk].pub_date <= now
    /\ ~category_is_published[posts[response.pk].category]
    /\ response.status = "404"

\* C3: a detail request by the post's author succeeds and returns the post,
\* whatever its flags and date.
C3_AuthorSeesOwnPost ==
    (/\ response.view = "PostDetailView"
     /\ response.pk \in DOMAIN posts
     /\ response.user = posts[response.pk].author)
    => /\ response.status = "200"
       /\ response.post = response.pk

\* The author reads their own unpublished, future post in an unpublished
\* category.
C3_Witness ==
    /\ response.view = "PostDetailView"
    /\ response.pk \in DOMAIN posts
    /\ response.user = posts[response.pk].author
    /\ ~posts[response.pk].is_published
    /\ ~category_is_published[posts[response.pk].category]
    /\ posts[response.pk].pub_date > now
    /\ response.status = "200"

\* C4: the profile page of a user, asked for by anyone else, lists only the
\* publicly visible posts of that user.
C4_ProfileShowsOthersOnlyPublicPosts ==
    (/\ response.view = "profile_view"
     /\ response.status = "200"
     /\ response.user # response.arg)
    => \A i \in 1..Len(response.items) : publicly_visible(response.items[i])

\* What C5 asks of one step.
C5_Step ==
    LET r == response'
    IN r.view \in {"PostUpdateView", "PostDeleteView"} =>
          /\ (r.pk \in DOMAIN posts /\ r.user # posts[r.pk].author) =>
                /\ UNCHANGED db
                /\ r.status = "302"
                /\ r.location = post_detail_url(r.pk)
          /\ posts' # posts =>
                /\ r.pk \in DOMAIN posts
                /\ r.user = posts[r.pk].author

\* C5: an edit or delete request for an existing post by anyone but its
\* author changes no stored record and is redirected to the post's detail
\* page; these views change the posts only for the author.
C5_OnlyAuthorEditsOrDeletesPost == [][C5_Step]_vars

\* The superuser posts a delete of another user's post and is redirected.
C5_Witness ==
    /\ response.view = "PostDeleteView"
    /\ response.method = "POST"
    /\ response.user = "root"
    /\ response.pk \in DOMAIN posts
    /\ posts[response.pk].author # "root"
    /\ response.status = "302"

\* What C6 asks of one step.
C6_Step ==
    LET r == response'
    IN /\ r.view = "CommentUpdateView" =>
          /\ (/\ r.comm_pk \in DOMAIN comments
              /\ r.user # comments[r.comm_pk].author)
             => (r.status = "404" /\ comments' = comments)
          /\ comments' # comments =>
                /\ r.comm_pk \in DOMAIN comments
                /\ r.user = comments[r.comm_pk].author
                /\ DOMAIN comments' = DOMAIN comments
                /\ \A c \in DOMAIN comments \ {r.comm_pk} :
                      comments'[c] = comments[c]
       /\ r.view = "CommentDeleteView" =>
          /\ (/\ r.comm_pk \in DOMAIN comments
              /\ r.user # comments[r.comm_pk].author
              /\ ~is_superuser(r.user))
             => (r.status = "404" /\ comments' = comments)
          /\ comments' # comments =>
                /\ r.comm_pk \in DOMAIN comments
                /\ r.user = comments[r.comm_pk].author \/ is_superuser(r.user)
                /\ DOMAIN comments' = DOMAIN comments \ {r.comm_pk}
                /\ \A c \in DOMAIN comments' : comments'[c] = comments[c]

\* C6: CommentUpdateView changes a comment's text only for the comment's
\* author, CommentDeleteView removes a comment only for its author or a
\* superuser; everyone else gets 404 and the comments stay as they are.
C6_OnlyAuthorEditsComment == [][C6_Step]_vars

\* The superuser tries to edit another user's comment and gets 404.
C6_Witness ==
    /\ response.view = "CommentUpdateView"
    /\ response.method = "POST"
    /\ response.valid
    /\ response.user = "root"
    /\ response.comm_pk \in DOMAIN comments
    /\ comments[response.comm_pk].author # "root"
    /\ response.status = "404"

\* What C7 asks of one step.
C7_Step ==
    LET r == response'
    IN /\ (r.view \in {"PostCreateView", "CommentCreateView"}
           /\ r.user = Anonymous)
          => (posts' = posts /\ comments' = comments)
       /\ r.view = "PostCreateView" =>
          /\ comments' = comments
          /\ \A pk \in DOMAIN posts' :
                IF pk \in DOMAIN posts THEN posts'[pk] = posts[pk]
                ELSE posts'[pk].author = r.user
       /\ r.view = "CommentCreateView" =>
          /\ posts' = posts
          /\ \A c \in DOMAIN comments' :
                IF c \in DOMAIN comments THEN comments'[c] = comments[c]
                ELSE /\ comments'[c].author = r.user
                     /\ comments'[c].post = r.pk
                     /\ r.pk \in DOMAIN posts
          /\ (/\ r.user # Anonymous
              /\ r.method = "POST"
              /\ r.valid
              /\ r.pk \notin DOMAIN posts)
             => (r.status = "404" /\ comments' = comments)
       /\ r.view = "PostUpdateView" =>
          /\ DOMAIN posts' = DOMAIN posts
          /\ \A pk \in DOMAIN posts : posts'[pk].author = posts[pk].author
       /\ r.view = "CommentUpdateView" =>
          /\ DOMAIN comments' = DOMAIN comments
          /\ \A c \in DOMAIN comments :
                comments'[c].author = comments[c].author

\* C7: an anonymous create request creates nothing; a created post has the
\* requester as author; a created comment has the requester as author and
\* the post of the URL as post, and a submitted comment for a post that does
\* not exist is answered 404 and creates nothing; an edit through
\* PostUpdateView or CommentUpdateView changes no author.
C7_AuthorshipIsRecordedFaithfully == [][C7_Step]_vars

\* A user has commented on somebody else's post.
C7_Witness ==
    /\ response.view = "CommentCreateView"
    /\ response.status = "302"
    /\ response.comm_pk \in DOMAIN comments
    /\ comments[response.comm_pk].author = response.user
    /\ comments[response.comm_pk].post = response.pk
    /\ posts[response.pk].author # response.user

\* C8: the comments of a served detail page are exactly the comments
\* attached to the post, each once, in non-decreasing order of creation.
C8_DetailShowsThePostsCommentsInOrder ==
    (response.view = "PostDetailView" /\ response.status = "200") =>
        /\ Range(response.items) =
              {c \in DOMAIN comments : comments[c].post = response.pk}
        /\ \A i, j \in 1..Len(response.items) :
              i < j =>
                 /\ response.items[i] # response.items[j]
                 /\ comments[response.items[i]].created_at
                       <= comments[response.items[j]].created_at

\* A served page shows one comment while the other post has a comment too.
C8_Witness ==
    /\ response.view = "PostDetailView"
    /\ response.status = "200"
    /\ Len(response.items) = 1
    /\ \E c \in DOMAIN comments : comments[c].post # response.pk

\* C9: at every instant, the index listing returns a post exactly when an
\* anonymous detail request for it succeeds.
C9_ListingAndDetailAgree ==
    /\ (/\ response.view = "PostDetailView"
        /\ response.user = Anonymous
        /\ response.pk \in DOMAIN posts)
       => (response.status = "200"
              <=> response.pk \in Range(PostListView_get_queryset))
    /\ response.view = "PostListView" =>
          \A p \in DOMAIN posts :
             p \in Range(response.items)
                <=> ~PostDetailView_raises_404(Anonymous, p)

\* C10: a comment is created only on a post its author may see: their own
\* post or a publicly visible one.
C10_CommentOnlyOnPostTheAuthorMaySee ==
    (/\ response.view = "CommentCreateView"
     /\ response.status = "302"
     /\ response.comm_pk \in DOMAIN comments)
    => \/ response.user = posts[response.pk].author
       \/ publicly_visible(response.pk)

====
